---- MODULE Spec2Model ----
(***************************************************************************)
(* Model of the Neighborly wiki generator (src/main.py).                   *)
(*                                                                         *)
(* One run of main() loads a snapshot, creates the output tree, walks the  *)
(* snapshot's entities in dict order dispatching each to a page generator, *)
(* and finally writes the homepage.  The model keeps the snapshot, the     *)
(* output directory (directories and files with their contents), and the   *)
(* position of main(); one action stands for each statement group of       *)
(* main().  Page generators are operators that either raise or return the  *)
(* path and the rendered text they write.                                  *)
(***************************************************************************)
EXTENDS Integers, Sequences, FiniteSets, TLC

VARIABLES
    source,    \* the file named on the command line
    sim,       \* the decoded snapshot (dict order + entity map)
    pc,        \* position of main()
    idx,       \* position of the dispatcher loop in the dict order
    run,       \* number of the current run of the program
    dirs,      \* directories that exist
    files,     \* path -> sequence of texts written to the file
    calls,     \* generators invoked by this run, in order: <<key, generator>>
    effects,   \* effects of this run, in order
    error,     \* the uncaught exception that ended this run, "" if none
    prev       \* files as the previous run left them

vars == <<source, sim, pc, idx, run, dirs, files, calls, effects, error, prev>>

----------------------------------------------------------------------------
(* Bounds of the model *)

NumEntities == 2
MaxRefs == 2
MaxRuns == 2

----------------------------------------------------------------------------
(* Strings, paths, links *)

Digit == <<"0", "1", "2", "3", "4", "5", "6", "7", "8", "9">>

\* Python's str() of a non-negative int: its decimal digits.
RECURSIVE str(_)
str(i) == IF i < 10 THEN Digit[i + 1] ELSE str(i \div 10) \o Digit[(i % 10) + 1]

OUTPUT_DIR == "output"

GameobjectsDir == OUTPUT_DIR \o "/gameobjects"

\* a page path that leaves the identifier out
PagePathShared(id) == GameobjectsDir \o "/gameobject.html"

\* OUTPUT_DIR / "gameobjects" / f"{gameobject['id']}.html"
PagePath(id) == GameobjectsDir \o "/" \o str(id) \o ".html"

IndexPath == OUTPUT_DIR \o "/index.html"

\* a link that leaves the extension out
LinkStrNoExtension(s) == "../gameobjects/" \o s

\* f"../gameobjects/{x}.html", x already a string
LinkStr(s) == "../gameobjects/" \o s \o ".html"

\* f"../gameobjects/{id}.html", id an int
Link(id) == LinkStr(str(id))

\* f"/gameobjects/{entry['id']}.html"
HomeLink(id) == "/gameobjects/" \o str(id) \o ".html"

----------------------------------------------------------------------------
(* Lookups in the snapshot *)

\* sim["gameobjects"]
Gameobjects(s) == s.gameobjects

\* whether sim["gameobjects"][key] raises KeyError
HasKey(s, key) == key \in DOMAIN Gameobjects(s)

Has(s, id) == HasKey(s, str(id))

\* sim["gameobjects"][str(id)]
Obj(s, id) == Gameobjects(s)[str(id)]

\* "X" in gameobject["components"]
HasComp(go, c) == c \in DOMAIN go.components

\* d.get(key, default)
Get(d, key, default) == IF key \in DOMAIN d THEN d[key] ELSE default

\* the truth value of components.get(c): a missing or empty component is falsy
Truthy(go, c) == HasComp(go, c) /\ DOMAIN go.components[c] # {}

\* template.render(**context): the template engine is a black box; the text
\* is determined by the template's name and the values handed to it
Render(template, context) == [template |-> template, context |-> context]

\* a generator that returned after writing `text` to `path`
Done(path, text) == [ok |-> TRUE, error |-> "", path |-> path, text |-> text]

\* a generator that raised before writing anything
Raise(e) == [ok |-> FALSE, error |-> e, path |-> "", text |-> Render("", [none |-> TRUE])]

----------------------------------------------------------------------------
(* Shaping shared by the generators *)

\* every trait id resolves to an entity with a Trait component
TraitsOk(s, ids) ==
    \A i \in 1..Len(ids) : Has(s, ids[i]) /\ HasComp(Obj(s, ids[i]), "Trait")

\* the "Get trait info" loop
TraitList(s, ids) ==
    [i \in 1..Len(ids) |->
        LET trait == Obj(s, ids[i]).components["Trait"]
        IN [name |-> trait.display_name, description |-> trait.description]]

\* (name, link) of each id of a list, in the list's order
NameLinks(s, ids) ==
    [i \in 1..Len(ids) |-> <<Obj(s, ids[i]).name, Link(ids[i])>>]

AllPresent(s, ids) == \A i \in 1..Len(ids) : Has(s, ids[i])

\* a unit resolves, has a Residence component, and its residents resolve
UnitOk(s, unit_id) ==
    /\ Has(s, unit_id)
    /\ HasComp(Obj(s, unit_id), "Residence")
    /\ AllPresent(s, Obj(s, unit_id).components["Residence"].residents)

\* the residents of one unit, appended in the order of Residence.residents
UnitResidents(s, unit_id) ==
    NameLinks(s, Obj(s, unit_id).components["Residence"].residents)

----------------------------------------------------------------------------
(* Page generators *)

generate_trait_page(s, gameobject) == Raise("NotImplementedError")

generate_skill_page(s, gameobject) == Raise("NotImplementedError")

\* the "Get resident info" loop: one record per unit, in the order of units
ResidenceUnits(s, unit_ids) ==
    [i \in 1..Len(unit_ids) |->
        [number |-> unit_ids[i], residents |-> UnitResidents(s, unit_ids[i])]]

generate_residence_page(s, gameobject) ==
    LET comps == gameobject.components
        lookups_ok ==
            /\ HasComp(gameobject, "ResidentialBuilding")
            /\ Has(s, comps["ResidentialBuilding"].district)
            /\ HasComp(gameobject, "Traits")
            /\ TraitsOk(s, comps["Traits"].traits)
            /\ \A i \in 1..Len(comps["ResidentialBuilding"].units) :
                   UnitOk(s, comps["ResidentialBuilding"].units[i])
        district_id == comps["ResidentialBuilding"].district
        context ==
            [residence_name |-> gameobject.name,
             district |-> <<Obj(s, district_id).name, Link(district_id)>>,
             traits |-> TraitList(s, comps["Traits"].traits),
             units |-> ResidenceUnits(s, comps["ResidentialBuilding"].units),
             activity_status |->
                 IF HasComp(gameobject, "Active") THEN "Active" ELSE "Inactive"]
    IN IF lookups_ok
       THEN Done(PagePath(gameobject.id), Render("residence.jinja", context))
       ELSE Raise("KeyError")

generate_business_page(s, gameobject) ==
    LET comps == gameobject.components
        lookups_ok ==
            /\ HasComp(gameobject, "Business")
            /\ Has(s, comps["Business"].district)
            /\ HasComp(gameobject, "Traits")
            /\ TraitsOk(s, comps["Traits"].traits)
        district_id == comps["Business"].district
        context ==
            [business_name |-> gameobject.name,
             district_name |-> Obj(s, district_id).name,
             district_link |-> Link(district_id),
             activity_status |->
                 IF HasComp(gameobject, "Active") THEN "Active" ELSE "Inactive",
             owner_name |-> "TBD",
             owner_link |-> "#",
             frequented_by |-> <<>>,
             traits |-> TraitList(s, comps["Traits"].traits),
             events |-> <<>>]
    IN IF lookups_ok
       THEN Done(PagePath(gameobject.id), Render("business.jinja", context))
       ELSE Raise("KeyError")

\* the residence of a character: resolved through the unit's parent building
ResidenceOk(s, gameobject) ==
    Truthy(gameobject, "Resident") =>
        LET residence_id == gameobject.components["Resident"].residence
        IN /\ Has(s, residence_id)
           /\ "parent" \in DOMAIN Obj(s, residence_id)
           /\ Has(s, Obj(s, residence_id).parent)

\* the residence with empty strings for defaults
ResidenceFieldBlank(s, gameobject) ==
    IF Truthy(gameobject, "Resident")
    THEN LET residence_id == gameobject.components["Resident"].residence
             building_id == Obj(s, residence_id).parent
         IN [name |-> Obj(s, building_id).name, link |-> Link(building_id)]
    ELSE [name |-> "", link |-> ""]

ResidenceField(s, gameobject) ==
    IF Truthy(gameobject, "Resident")
    THEN LET residence_id == gameobject.components["Resident"].residence
             building_id == Obj(s, residence_id).parent
         IN [name |-> Obj(s, building_id).name, link |-> Link(building_id)]
    ELSE [name |-> "N/A", link |-> "#"]

OccupationOk(s, gameobject) ==
    Truthy(gameobject, "Occupation") =>
        Has(s, gameobject.components["Occupation"].business)

OccupationField(s, gameobject) ==
    IF Truthy(gameobject, "Occupation")
    THEN LET business_id == gameobject.components["Occupation"].business
         IN [name |-> Obj(s, business_id).name, link |-> Link(business_id)]
    ELSE [name |-> "N/A", link |-> "#"]

\* Skills is a dict skill id -> level, here the sequence of its items
SkillsOk(s, items) ==
    \A i \in 1..Len(items) :
        HasKey(s, items[i][1]) /\ HasComp(Gameobjects(s)[items[i][1]], "Skill")

SkillList(s, items) ==
    [i \in 1..Len(items) |->
        LET skill == Gameobjects(s)[items[i][1]].components["Skill"]
        IN [name |-> skill.display_name,
            level |-> items[i][2],
            description |-> skill.description]]

LocationList(s, ids) ==
    [i \in 1..Len(ids) |-> [name |-> Obj(s, ids[i]).name, link |-> Link(ids[i])]]

StatNames == {"reputation", "romance", "compatibility", "romantic_compatibility"}

\* outgoing is a dict target id (a string) -> relationship id, here its items
RelationshipsOk(s, items) ==
    \A i \in 1..Len(items) :
        /\ HasKey(s, items[i][1])
        /\ Has(s, items[i][2])
        /\ HasComp(Obj(s, items[i][2]), "Traits")
        /\ TraitsOk(s, Obj(s, items[i][2]).components["Traits"].traits)
        /\ HasComp(Obj(s, items[i][2]), "Stats")
        /\ StatNames \subseteq DOMAIN Obj(s, items[i][2]).components["Stats"]

RelationshipList(s, items) ==
    [i \in 1..Len(items) |->
        LET target == Gameobjects(s)[items[i][1]]
            relationship == Obj(s, items[i][2])
            stats == relationship.components["Stats"]
        IN [target_name |-> target.name,
            target_link |-> LinkStr(items[i][1]),
            reputation |-> stats.reputation,
            romance |-> stats.romance,
            compatibility |-> stats.compatibility,
            romantic_compatibility |-> stats.romantic_compatibility,
            traits |-> TraitList(s, relationship.components["Traits"].traits)]]

generate_character_page(s, gameobject) ==
    LET comps == gameobject.components
        lookups_ok ==
            /\ HasComp(gameobject, "Character")
            /\ ResidenceOk(s, gameobject)
            /\ OccupationOk(s, gameobject)
            /\ HasComp(gameobject, "Traits")
            /\ TraitsOk(s, comps["Traits"].traits)
            /\ HasComp(gameobject, "Skills")
            /\ SkillsOk(s, comps["Skills"])
            /\ HasComp(gameobject, "FrequentedLocations")
            /\ AllPresent(s, comps["FrequentedLocations"].locations)
            /\ HasComp(gameobject, "Relationships")
            /\ RelationshipsOk(s, comps["Relationships"].outgoing)
        residence == ResidenceField(s, gameobject)
        occupation == OccupationField(s, gameobject)
        context ==
            [character_name |-> gameobject.name,
             activity_status |->
                 IF HasComp(gameobject, "Active") THEN "Active" ELSE "Inactive",
             age |-> comps["Character"].age,
             life_stage |-> comps["Character"].life_stage,
             sex |-> comps["Character"].sex,
             species |-> comps["Character"].species,
             residence_link |-> residence.link,
             residence_name |-> residence.name,
             occupation_link |-> occupation.link,
             occupation_name |-> occupation.name,
             frequented_locations |->
                 LocationList(s, comps["FrequentedLocations"].locations),
             traits |-> TraitList(s, comps["Traits"].traits),
             skills |-> SkillList(s, comps["Skills"]),
             relationships |-> RelationshipList(s, comps["Relationships"].outgoing),
             events |-> <<>>]
    IN IF lookups_ok
       THEN Done(PagePath(gameobject.id), Render("character.jinja", context))
       ELSE Raise("KeyError")

\* the residents of the units of one residence, the last unit's first
RECURSIVE ResidenceResidentsLastFirst(_, _)
ResidenceResidentsLastFirst(s, unit_ids) ==
    IF unit_ids = <<>>
    THEN <<>>
    ELSE ResidenceResidentsLastFirst(s, Tail(unit_ids))
         \o UnitResidents(s, Head(unit_ids))

\* the residents of every unit of one residence, in the order of units
RECURSIVE ResidenceResidents(_, _)
ResidenceResidents(s, unit_ids) ==
    IF unit_ids = <<>>
    THEN <<>>
    ELSE UnitResidents(s, Head(unit_ids)) \o ResidenceResidents(s, Tail(unit_ids))

\* the residents list of the district loop: residences outermost
RECURSIVE DistrictResidents(_, _)
DistrictResidents(s, residence_ids) ==
    IF residence_ids = <<>>
    THEN <<>>
    ELSE ResidenceResidents(
             s, Obj(s, Head(residence_ids)).components["ResidentialBuilding"].units)
         \o DistrictResidents(s, Tail(residence_ids))

DistrictResidenceOk(s, residence_id) ==
    /\ Has(s, residence_id)
    /\ HasComp(Obj(s, residence_id), "ResidentialBuilding")
    /\ \A j \in 1..Len(Obj(s, residence_id).components["ResidentialBuilding"].units) :
           UnitOk(s, Obj(s, residence_id).components["ResidentialBuilding"].units[j])

generate_district_page(s, gameobject) ==
    LET comps == gameobject.components
        lookups_ok ==
            /\ HasComp(gameobject, "District")
            /\ Has(s, comps["District"].settlement)
            /\ \A i \in 1..Len(comps["District"].residences) :
                   DistrictResidenceOk(s, comps["District"].residences[i])
            /\ AllPresent(s, comps["District"].businesses)
        settlement_id == comps["District"].settlement
        settlement_name == Obj(s, settlement_id).name
        context ==
            [district_name |-> gameobject.name,
             population |-> Get(comps["District"], "population", -1),
             description |-> Get(comps["District"], "description", "N/A"),
             settlement_name |-> settlement_name,
             residences |-> NameLinks(s, comps["District"].residences),
             businesses |-> NameLinks(s, comps["District"].businesses),
             residents |-> DistrictResidents(s, comps["District"].residences),
             settlement |-> <<settlement_name, Link(settlement_id)>>]
    IN IF lookups_ok
       THEN Done(PagePath(gameobject.id), Render("district.jinja", context))
       ELSE Raise("KeyError")

generate_settlement_page(s, gameobject) ==
    LET comps == gameobject.components
        lookups_ok ==
            /\ HasComp(gameobject, "Settlement")
            /\ AllPresent(s, comps["Settlement"].districts)
        context ==
            [settlement_name |-> gameobject.name,
             population |-> Get(comps["Settlement"], "population", -1),
             description |-> Get(comps["Settlement"], "description", "N/A"),
             districts |-> NameLinks(s, comps["Settlement"].districts)]
    IN IF lookups_ok
       THEN Done(PagePath(gameobject.id), Render("settlement.jinja", context))
       ELSE Raise("KeyError")

\* the bucket the homepage loop puts an entry in, "" for none
HomeBucket(entry) ==
    IF HasComp(entry, "Settlement") THEN "settlements"
    ELSE IF HasComp(entry, "District") THEN "districts"
    ELSE IF HasComp(entry, "Business") THEN "businesses"
    ELSE IF HasComp(entry, "Character") THEN "characters"
    ELSE ""

\* the label with the test of is_active inverted
ActivityLabelInverted(entry) ==
    entry.name \o (IF HasComp(entry, "Active") THEN " (inactive)" ELSE "")

\* the display label of an entry of the businesses or characters bucket
ActivityLabel(entry) ==
    entry.name \o (IF ~HasComp(entry, "Active") THEN " (inactive)" ELSE "")

\* the (label, link) pairs of one bucket, in dict order
Bucket(s, bucket) ==
    LET keys == SelectSeq(s.order,
                          LAMBDA k : HomeBucket(Gameobjects(s)[k]) = bucket)
    IN [i \in 1..Len(keys) |->
           LET entry == Gameobjects(s)[keys[i]]
           IN <<IF bucket \in {"businesses", "characters"}
                THEN ActivityLabel(entry)
                ELSE entry.name,
                HomeLink(entry.id)>>]

generate_home_page(s) ==
    Done(IndexPath,
         Render("index.jinja",
                [settlements |-> Bucket(s, "settlements"),
                 districts |-> Bucket(s, "districts"),
                 businesses |-> Bucket(s, "businesses"),
                 characters |-> Bucket(s, "characters")]))

----------------------------------------------------------------------------
(* main() *)

\* the chain with the homepage's order: Business tested before Character
DispatchBusinessFirst(gameobject) ==
    IF HasComp(gameobject, "Settlement") THEN "generate_settlement_page"
    ELSE IF HasComp(gameobject, "District") THEN "generate_district_page"
    ELSE IF HasComp(gameobject, "Business") THEN "generate_business_page"
    ELSE IF HasComp(gameobject, "Character") THEN "generate_character_page"
    ELSE IF HasComp(gameobject, "ResidentialBuilding") THEN "generate_residence_page"
    ELSE ""

\* the if/elif chain of the dispatcher loop: the generator it calls, "" for none
Dispatch(gameobject) ==
    IF HasComp(gameobject, "Settlement") THEN "generate_settlement_page"
    ELSE IF HasComp(gameobject, "District") THEN "generate_district_page"
    ELSE IF HasComp(gameobject, "Character") THEN "generate_character_page"
    ELSE IF HasComp(gameobject, "Business") THEN "generate_business_page"
    ELSE IF HasComp(gameobject, "ResidentialBuilding") THEN "generate_residence_page"
    ELSE ""

\* the call of a generator by name
Generate(generator, s, gameobject) ==
    CASE generator = "generate_settlement_page" -> generate_settlement_page(s, gameobject)
      [] generator = "generate_district_page" -> generate_district_page(s, gameobject)
      [] generator = "generate_character_page" -> generate_character_page(s, gameobject)
      [] generator = "generate_business_page" -> generate_business_page(s, gameobject)
      [] generator = "generate_residence_page" -> generate_residence_page(s, gameobject)
      [] generator = "generate_trait_page" -> generate_trait_page(s, gameobject)
      [] generator = "generate_skill_page" -> generate_skill_page(s, gameobject)

\* a mkdir that reports success and makes nothing
MkdirNothing(ds, path) == [ok |-> TRUE, error |-> "", dirs |-> ds]

\* Path.mkdir(parents=True, exist_ok=True)
Mkdir(ds, path) == [ok |-> TRUE, error |-> "", dirs |-> ds \cup {path}]

\* the content of a file opened with mode "a" after one write()
AppendMode(fs, path, text) ==
    [p \in DOMAIN fs \cup {path} |->
        IF p = path
        THEN (IF path \in DOMAIN fs THEN Append(fs[path], text) ELSE <<text>>)
        ELSE fs[p]]

\* the content of a file opened with mode "w" after one write()
Truncate(fs, path, text) ==
    [p \in DOMAIN fs \cup {path} |-> IF p = path THEN <<text>> ELSE fs[p]]

\* with open(path, "w") as file: file.write(text), path directly under dir
OpenWrite(fs, ds, dir, path, text) ==
    IF dir \in ds
    THEN [ok |-> TRUE, error |-> "", files |-> Truncate(fs, path, text)]
    ELSE [ok |-> FALSE, error |-> "FileNotFoundError", files |-> fs]

\* open(args.source) and json.load, then sim["gameobjects"]
LoadSource ==
    /\ pc = "start"
    /\ effects' = Append(effects, "load")
    /\ IF source.kind = "json"
       THEN /\ sim' = source.value
            /\ pc' = "mkdir_output"
            /\ error' = ""
       ELSE /\ sim' = sim
            /\ pc' = "aborted"
            /\ error' = IF source.kind = "missing"
                        THEN "FileNotFoundError"
                        ELSE "JSONDecodeError"
    /\ UNCHANGED <<source, idx, run, dirs, files, calls, prev>>

\* OUTPUT_DIR.mkdir(parents=True, exist_ok=True)
MkdirOutput ==
    /\ pc = "mkdir_output"
    /\ LET made == Mkdir(dirs, OUTPUT_DIR)
       IN IF made.ok
          THEN /\ dirs' = made.dirs
               /\ effects' = Append(effects, "mkdir " \o OUTPUT_DIR)
               /\ pc' = "mkdir_gameobjects"
               /\ error' = error
          ELSE /\ dirs' = dirs
               /\ effects' = effects
               /\ pc' = "aborted"
               /\ error' = made.error
    /\ UNCHANGED <<source, sim, idx, run, files, calls, prev>>

\* (OUTPUT_DIR / "gameobjects").mkdir(parents=True, exist_ok=True)
MkdirGameobjects ==
    /\ pc = "mkdir_gameobjects"
    /\ LET made == Mkdir(dirs, GameobjectsDir)
       IN IF made.ok
          THEN /\ dirs' = made.dirs
               /\ effects' = Append(effects, "mkdir " \o GameobjectsDir)
               /\ pc' = "loop"
               /\ idx' = 1
               /\ error' = error
          ELSE /\ dirs' = dirs
               /\ effects' = effects
               /\ pc' = "aborted"
               /\ idx' = idx
               /\ error' = made.error
    /\ UNCHANGED <<source, sim, run, files, calls, prev>>

\* a loop that catches the exception and goes on to the next entity
OutcomeSkipAndContinue(page, written) ==
    IF page.ok /\ written.ok
    THEN [pc |-> "loop", step |-> 1, error |-> "", wrote |-> TRUE]
    ELSE [pc |-> "loop", step |-> 1, error |-> "", wrote |-> FALSE]

\* what the loop does after a generator call: go on to the next entity, or,
\* there being no try/except, let the exception end main()
Outcome(page, written) ==
    IF page.ok /\ written.ok
    THEN [pc |-> "loop", step |-> 1, error |-> "", wrote |-> TRUE]
    ELSE [pc |-> "aborted", step |-> 0,
          error |-> IF page.ok THEN written.error ELSE page.error,
          wrote |-> FALSE]

\* one iteration of "for _, gameobject in gameobjects.items()"
DispatchStep ==
    /\ pc = "loop"
    /\ idx <= Len(sim.order)
    /\ LET key == sim.order[idx]
           gameobject == Gameobjects(sim)[key]
           generator == Dispatch(gameobject)
       IN IF generator = ""
          THEN /\ idx' = idx + 1
               /\ UNCHANGED <<pc, files, calls, effects, error>>
          ELSE LET page == Generate(generator, sim, gameobject)
                   written == OpenWrite(files, dirs, GameobjectsDir,
                                        page.path, page.text)
                   outcome == Outcome(page, written)
               IN /\ calls' = Append(calls, <<key, generator>>)
                  /\ pc' = outcome.pc
                  /\ idx' = idx + outcome.step
                  /\ error' = IF outcome.pc = "aborted" THEN outcome.error ELSE error
                  /\ IF outcome.wrote
                     THEN /\ files' = written.files
                          /\ effects' = Append(effects, "write " \o page.path)
                     ELSE UNCHANGED <<files, effects>>
    /\ UNCHANGED <<source, sim, run, dirs, prev>>

\* the loop is over: generate_home_page(sim), then main() returns
HomePage ==
    /\ pc = "loop"
    /\ idx > Len(sim.order)
    /\ LET page == generate_home_page(sim)
           written == OpenWrite(files, dirs, OUTPUT_DIR, page.path, page.text)
       IN IF written.ok
          THEN /\ files' = written.files
               /\ effects' = Append(effects, "write " \o page.path)
               /\ pc' = "done"
               /\ error' = error
          ELSE /\ files' = files
               /\ effects' = effects
               /\ pc' = "aborted"
               /\ error' = written.error
    /\ UNCHANGED <<source, sim, idx, run, dirs, calls, prev>>

\* the program is started again on the same source and output directory
Rerun ==
    /\ pc \in {"done", "aborted"}
    /\ run < MaxRuns
    /\ run' = run + 1
    /\ pc' = "start"
    /\ idx' = 0
    /\ calls' = <<>>
    /\ effects' = <<>>
    /\ error' = ""
    /\ prev' = files
    /\ UNCHANGED <<source, sim, dirs, files>>

\* one run of main()
Main ==
    \/ LoadSource
    \/ MkdirOutput
    \/ MkdirGameobjects
    \/ DispatchStep
    \/ HomePage

Next ==
    \/ Main
    \/ Rerun

----------------------------------------------------------------------------
(* Snapshots the program is run on *)

Ids == 1..NumEntities

\* an identifier no entity of the snapshot has
DanglingId == NumEntities + 1

Name(k) == "Name" \o str(k)

RECURSIVE Reverse(_)
Reverse(q) == IF q = <<>> THEN <<>> ELSE Append(Reverse(Tail(q)), Head(q))

\* the value of component c of entity k, whose references are ref and refs
CompValue(c, k, ref, refs) ==
    CASE c = "Settlement" -> [districts |-> refs]
      [] c = "District" ->
             [settlement |-> ref, residences |-> refs, businesses |-> refs,
              population |-> 100 * k, description |-> "A district"]
      [] c = "ResidentialBuilding" -> [district |-> ref, units |-> refs]
      [] c = "Residence" -> [residents |-> refs]
      [] c = "Business" -> [district |-> ref]
      [] c = "Character" ->
             [age |-> 30 + k, sex |-> "FEMALE", life_stage |-> "ADULT",
              species |-> "human"]
      [] c = "Resident" -> [residence |-> ref]
      [] c = "Occupation" -> [business |-> ref]
      [] c = "Traits" -> [traits |-> <<>>]
      [] c = "TraitRefs" -> [traits |-> refs]
      [] c = "Skills" -> <<>>
      [] c = "SkillRefs" ->
             IF refs = <<>> THEN <<>> ELSE << <<str(refs[1]), k>> >>
      [] c = "FrequentedLocations" -> [locations |-> refs]
      [] c = "Relationships" -> [outgoing |-> <<>>]
      [] c = "RelationshipRefs" ->
             [outgoing |->
                 IF refs = <<>> THEN <<>>
                 ELSE << <<str(refs[1]), refs[Len(refs)]>> >>]
      [] c = "Stats" ->
             [reputation |-> k, romance |-> 0, compatibility |-> 1,
              romantic_compatibility |-> 2]
      [] c = "Trait" -> [display_name |-> "Trait" \o str(k), description |-> "A trait"]
      [] c = "Skill" -> [display_name |-> "Skill" \o str(k), description |-> "A skill"]
      [] c = "Active" -> <<>>

\* the component key a shape name stands for
CompKey(c) ==
    CASE c = "TraitRefs" -> "Traits"
      [] c = "SkillRefs" -> "Skills"
      [] c = "RelationshipRefs" -> "Relationships"
      [] OTHER -> c

\* entity k with the components of `shape`; a residential unit has a parent
Entity(k, shape, ref, refs) ==
    LET components ==
            [key \in {CompKey(c) : c \in shape} |->
                CompValue(CHOOSE c \in shape : CompKey(c) = key, k, ref, refs)]
    IN IF "Residence" \in shape
       THEN [id |-> k, name |-> Name(k), parent |-> ref, components |-> components]
       ELSE [id |-> k, name |-> Name(k), components |-> components]

\* the dict {"1": ..., "2": ...} in the order `order`
Snapshot(order, entity) ==
    [order |-> [i \in 1..Len(order) |-> str(order[i])],
     gameobjects |-> [key \in {str(k) : k \in Ids} |->
                         entity[CHOOSE k \in Ids : str(k) = key]]]

Ascending == [i \in 1..NumEntities |-> i]

Orders == {Ascending, Reverse(Ascending)}

DispatchKinds ==
    {"Settlement", "District", "Character", "Business", "ResidentialBuilding"}

\* the components every generator reads from the entity itself
Own == {"Traits", "Skills", "FrequentedLocations", "Relationships"}

\* entities that differ in their kinds only: no kind, a Trait, a Skill, each
\* dispatch kind alone, kinds that are neighbours in the dispatcher's order
\* together, active or not, and a business without Traits
KindShapes ==
    {kinds \cup Own :
        kinds \in {{}, {"Trait"}, {"Skill"},
                   {"Settlement"}, {"District"}, {"Character"}, {"Business"},
                   {"ResidentialBuilding"},
                   {"Character", "Active"}, {"Business", "Active"},
                   {"Settlement", "District"},
                   {"District", "Character", "Active"},
                   {"Character", "Business"},
                   {"Business", "ResidentialBuilding"}}}
    \cup {{"Business"}}

KindSnapshots ==
    {Snapshot(order, [k \in Ids |-> Entity(k, shape[k], k, <<>>)]) :
        order \in Orders, shape \in [Ids -> KindShapes]}

\* the references of a snapshot: a list of up to MaxRefs identifiers of
\* entities, and the entity (0 for none) whose own list ends with one more
\* identifier, a dangling one
RefLists ==
    LET present == UNION {[1..n -> Ids] : n \in 0..MaxRefs}
    IN {[refs |-> q, dangler |-> 0] : q \in present}
       \cup {[refs |-> q, dangler |-> k] :
                q \in {r \in present : Len(r) < MaxRefs}, k \in Ids}

\* entities that differ in what they refer to
RefShapes ==
    {{"Settlement"},
     {"District", "ResidentialBuilding", "Residence", "Traits"},
     {"ResidentialBuilding", "Residence", "Traits", "Active"},
     {"Character", "Active", "Resident", "Occupation", "Traits", "Skills",
      "FrequentedLocations", "Relationships"},
     {"Character", "Occupation", "Traits", "Skills", "FrequentedLocations",
      "Relationships"},
     {"Character", "Resident", "Traits", "Skills", "FrequentedLocations",
      "RelationshipRefs"},
     {"Character", "Traits", "SkillRefs", "FrequentedLocations", "Relationships"},
     {"Business", "TraitRefs"},
     {"Trait", "Skill", "Traits", "Stats", "Residence"}}

\* the list of entity k: the snapshot's list, reversed for an even k, with
\* the dangling identifier after it for the dangler
ListOf(k, r) ==
    LET own == IF k % 2 = 1 THEN r.refs ELSE Reverse(r.refs)
    IN IF k = r.dangler THEN Append(own, DanglingId) ELSE own

\* the single reference of entity k: the head of its list, itself if none
RefOf(k, r) == IF ListOf(k, r) = <<>> THEN k ELSE ListOf(k, r)[1]

RefSnapshots ==
    {Snapshot(Ascending,
              [k \in Ids |-> Entity(k, shape[k], RefOf(k, r), ListOf(k, r))]) :
        r \in RefLists, shape \in [Ids -> RefShapes]}

NoSnapshot == [order |-> <<>>, gameobjects |-> <<>>]

\* a source that cannot be opened or decoded
BadSources ==
    {[kind |-> "missing", value |-> NoSnapshot],
     [kind |-> "invalid", value |-> NoSnapshot]}

Sources(snapshots) ==
    BadSources \cup {[kind |-> "json", value |-> w] : w \in snapshots}

StaleText == Render("stale", [stale |-> TRUE])

\* the output directory before the first run: absent, or left by an older run
FreshTree == [dirs |-> {}, files |-> <<>>]

Trees ==
    {FreshTree,
     [dirs |-> {OUTPUT_DIR, GameobjectsDir},
      files |-> (PagePath(1) :> <<StaleText>>) @@ (IndexPath :> <<StaleText>>)]}

InitOn(snapshots, trees) ==
    /\ source \in Sources(snapshots)
    /\ \E tree \in trees : dirs = tree.dirs /\ files = tree.files
    /\ sim = NoSnapshot
    /\ pc = "start"
    /\ idx = 0
    /\ run = 1
    /\ calls = <<>>
    /\ effects = <<>>
    /\ error = ""
    /\ prev = files

Init == InitOn(KindSnapshots, Trees)

InitRefs == InitOn(RefSnapshots, {FreshTree})

Spec == Init /\ [][Next]_vars

\* a single run on a snapshot with references
SpecRefs == InitRefs /\ [][Main]_vars

----------------------------------------------------------------------------
(* Vocabulary of the properties *)

\* the dispatcher's kinds, first priority first
Priority ==
    <<"Settlement", "District", "Character", "Business", "ResidentialBuilding">>

GeneratorOf ==
    [Settlement |-> "generate_settlement_page",
     District |-> "generate_district_page",
     Character |-> "generate_character_page",
     Business |-> "generate_business_page",
     ResidentialBuilding |-> "generate_residence_page"]

\* the dispatch kinds an entity's components contain
KindsOf(go) == {Priority[i] : i \in 1..Len(Priority)} \cap DOMAIN go.components

\* the kind of highest priority among them, "" if there is none
FirstKind(go) ==
    IF KindsOf(go) = {} THEN ""
    ELSE Priority[CHOOSE i \in 1..Len(Priority) :
                      /\ Priority[i] \in KindsOf(go)
                      /\ \A j \in 1..(i - 1) : Priority[j] \notin KindsOf(go)]

\* the entity at position p of the snapshot's iteration order
At(p) == sim.gameobjects[sim.order[p]]

Positions == 1..Len(sim.order)

\* the page file of the entity stored under `key`
KeyPath(key) == "output/gameobjects/" \o key \o ".html"

\* the places of effect e in this run's effects
Places(e) == {i \in 1..Len(effects) : effects[i] = e}

Wrote(path) == Places("write " \o path) # {}

\* the context the page of `key` was rendered from
PageContext(key) == files[KeyPath(key)][1].context

IndexContext == files["output/index.html"][1].context

\* the generators this run called for the entity stored under `key`
CallsFor(key) == {i \in 1..Len(calls) : calls[i][1] = key}

----------------------------------------------------------------------------
(* C1: after a run that completes, every entity whose components contain a  *)
(* dispatch kind has had exactly one file written for it, by this run, and  *)
(* the file is gameobjects/<id>.html for the entity's own identifier.       *)
C1_OnePagePerDispatchedEntity ==
    pc = "done" =>
        \A p \in Positions :
            KindsOf(At(p)) # {} =>
                /\ sim.order[p] = str(At(p).id)
                /\ Cardinality(Places("write " \o KeyPath(sim.order[p]))) = 1
                /\ KeyPath(sim.order[p]) \in DOMAIN files
                /\ Cardinality({i \in 1..Len(effects) :
                        \E q \in Positions :
                            effects[i] = "write " \o KeyPath(sim.order[q])})
                   = Cardinality({q \in Positions : KindsOf(At(q)) # {}})

\* a completed run on a snapshot all of whose entities have a dispatch kind,
\* one of them two kinds
C1_Witness ==
    /\ pc = "done"
    /\ \A p \in Positions : KindsOf(At(p)) # {}
    /\ \E p \in Positions : Cardinality(KindsOf(At(p))) = 2
    /\ Len(sim.order) = NumEntities

\* the number of entities the dispatcher loop has reached in this run
Reached ==
    IF pc = "done" THEN Len(sim.order)
    ELSE IF pc = "loop" THEN idx - 1
    ELSE IF pc = "aborted" /\ idx <= Len(sim.order) THEN idx
    ELSE 0

\* the calls the loop owes the first n entities: one for each entity that has
\* a dispatch kind, to the generator of its first kind, in iteration order
RECURSIVE OwedCalls(_)
OwedCalls(n) ==
    IF n = 0 THEN <<>>
    ELSE IF KindsOf(At(n)) = {} THEN OwedCalls(n - 1)
    ELSE Append(OwedCalls(n - 1), <<sim.order[n], GeneratorOf[FirstKind(At(n))]>>)

(* C2: the dispatcher calls, for each entity it reaches, only the generator *)
(* of the entity's first kind in the order Settlement, District, Character, *)
(* Business, ResidentialBuilding, and calls it once; an entity with none of *)
(* the five kinds gets no call, no file and no error, and the trait and     *)
(* skill generators are never called.                                       *)
C2_DispatchFirstKindOnce ==
    /\ calls = OwedCalls(Reached)
    /\ \A i \in 1..Len(calls) :
           calls[i][2] \notin {"generate_trait_page", "generate_skill_page"}
    /\ error # "NotImplementedError"
    /\ \A p \in Positions :
           KindsOf(At(p)) = {} =>
               /\ CallsFor(sim.order[p]) = {}
               /\ ~Wrote(KeyPath(sim.order[p]))
               /\ ~(pc = "aborted" /\ idx = p)

\* a completed run over an entity that has only Trait or only Skill and an
\* entity that has two dispatch kinds
C2_Witness ==
    /\ pc = "done"
    /\ Len(calls) = 1
    /\ \E p \in Positions :
           KindsOf(At(p)) = {} /\ DOMAIN At(p).components \cap {"Trait", "Skill"} # {}
    /\ \E p \in Positions : Cardinality(KindsOf(At(p))) = 2

\* the homepage bucket that lists the entity stored under `key`, "" if none
ListedIn(key) ==
    LET listing(b) ==
            \E i \in 1..Len(IndexContext[b]) :
                IndexContext[b][i][2] = "/gameobjects/" \o key \o ".html"
    IN IF listing("settlements") THEN "settlements"
       ELSE IF listing("districts") THEN "districts"
       ELSE IF listing("businesses") THEN "businesses"
       ELSE IF listing("characters") THEN "characters"
       ELSE ""

BucketOf ==
    [generate_settlement_page |-> "settlements",
     generate_district_page |-> "districts",
     generate_character_page |-> "characters",
     generate_business_page |-> "businesses",
     generate_residence_page |-> ""]

(* C3: after a completed run every entity is listed on the homepage in the  *)
(* bucket of the generator the dispatcher called for it, and an entity sent *)
(* to the residence generator or to none is listed in no bucket.            *)
C3_HomeBucketIsDispatchKind ==
    pc = "done" =>
        \A p \in Positions :
            LET key == sim.order[p]
            IN IF CallsFor(key) = {}
               THEN ListedIn(key) = ""
               ELSE \A i \in CallsFor(key) : ListedIn(key) = BucketOf[calls[i][2]]

\* the homepage label listed with the link of the entity stored under `key`
LabelsOf(key) ==
    {IndexContext[b][i][1] :
        b \in {bb \in {"settlements", "districts", "businesses", "characters"} :
                  ListedIn(key) = bb},
        i \in {j \in 1..Len(IndexContext[ListedIn(key)]) :
                  IndexContext[ListedIn(key)][j][2]
                      = "/gameobjects/" \o key \o ".html"}}

(* C9: after a completed run, the page of every entity dispatched as a      *)
(* Business or a Character says "Inactive" exactly when the entity has no   *)
(* Active component and "Active" otherwise, its homepage label is its name  *)
(* followed by " (inactive)" in exactly that case and its bare name         *)
(* otherwise, and the label of a Settlement or District is its bare name.   *)
C9_ActivityLabelling ==
    pc = "done" =>
        \A p \in Positions :
            LET key == sim.order[p]
                go == At(p)
                inactive == "Active" \notin DOMAIN go.components
            IN /\ (KindsOf(go) # {} /\ FirstKind(go) \in {"Business", "Character"}) =>
                      /\ PageContext(key).activity_status
                             = (IF inactive THEN "Inactive" ELSE "Active")
                      /\ LabelsOf(key)
                             = {IF inactive THEN go.name \o " (inactive)" ELSE go.name}
               /\ (KindsOf(go) # {} /\ FirstKind(go) \in {"Settlement", "District"}) =>
                      LabelsOf(key) = {go.name}

\* a completed run over an inactive business or character and an inactive
\* settlement or district
C9_Witness ==
    /\ pc = "done"
    /\ \E p \in Positions :
           /\ KindsOf(At(p)) # {}
           /\ FirstKind(At(p)) \in {"Business", "Character"}
           /\ "Active" \notin DOMAIN At(p).components
           /\ PageContext(sim.order[p]).activity_status = "Inactive"
    /\ \E p \in Positions :
           /\ KindsOf(At(p)) # {}
           /\ FirstKind(At(p)) \in {"Settlement", "District"}
           /\ "Active" \notin DOMAIN At(p).components

\* the page writes among this run's effects, in order
PageWrites ==
    SelectSeq(effects,
              LAMBDA e : \E p \in Positions : e = "write " \o KeyPath(sim.order[p]))

\* the pages the loop owes the first n entities, in iteration order
RECURSIVE OwedWrites(_)
OwedWrites(n) ==
    IF n = 0 THEN <<>>
    ELSE IF KindsOf(At(n)) = {} THEN OwedWrites(n - 1)
    ELSE Append(OwedWrites(n - 1), "write " \o KeyPath(sim.order[n]))

(* C10: in every run the effects come in the order load, mkdir output,      *)
(* mkdir output/gameobjects, the page writes in the snapshot's iteration    *)
(* order, the index write: a source that cannot be loaded ends the run with *)
(* no directory made and no file written, no page is written while the      *)
(* gameobjects directory is missing, and once index.html is written every   *)
(* dispatched entity's page has been written by this run.                   *)
C10_OrderOfEffects ==
    /\ pc # "start" => effects # <<>> /\ effects[1] = "load"
    /\ pc \in {"loop", "done"} =>
           /\ {"output", "output/gameobjects"} \subseteq dirs
           /\ Places("mkdir output/gameobjects") = {3}
    /\ effects # <<>> =>
           /\ effects[1] = "load"
           /\ Places("load") = {1}
    /\ Places("mkdir output") \subseteq {2}
    /\ Places("mkdir output/gameobjects") \subseteq {3}
    /\ Places("mkdir output/gameobjects") # {} => Places("mkdir output") # {}
    /\ \A i \in 1..Len(effects) :
           (i > 3) =>
               /\ "output/gameobjects" \in dirs
               /\ Places("mkdir output/gameobjects") = {3}
               /\ \/ \E p \in Positions : effects[i] = "write " \o KeyPath(sim.order[p])
                  \/ effects[i] = "write output/index.html" /\ i = Len(effects)
    /\ source.kind # "json" =>
           /\ Len(effects) <= 1
           /\ files = prev
           /\ \E tree \in Trees : dirs = tree.dirs
    /\ \E n \in 0..Len(sim.order) : PageWrites = OwedWrites(n)
    /\ Wrote("output/index.html") =>
           /\ pc = "done"
           /\ PageWrites = OwedWrites(Len(sim.order))
    /\ pc = "done" => Wrote("output/index.html")

\* a completed first run, on a fresh directory, that wrote a page for every
\* entity and then the index
C10_Witness ==
    /\ pc = "done"
    /\ run = 1
    /\ prev = <<>>
    /\ Len(PageWrites) = NumEntities
    /\ effects[Len(effects)] = "write output/index.html"
    /\ sim.order[1] # "1"

(* C5: a run that follows another run on the same snapshot leaves the files *)
(* with the contents the first run left; every file a run writes holds the  *)
(* one text of that write, and making the directories does not fail when    *)
(* they exist.                                                              *)
C5_Idempotence ==
    /\ (run > 1 /\ pc \in {"done", "aborted"}) => files = prev
    /\ \A i \in 1..Len(effects) :
           \A path \in DOMAIN files :
               effects[i] = "write " \o path => Len(files[path]) = 1
    /\ (run > 1 /\ source.kind = "json") =>
           /\ error # "FileExistsError"
           /\ pc = "aborted" => error = "KeyError"
    /\ (run > 1 /\ pc # "start" /\ source.kind = "json") =>
           {"output", "output/gameobjects"} \subseteq dirs

\* the second run completed and rewrote pages and the index
C5_Witness ==
    /\ run = 2
    /\ pc = "done"
    /\ Len(effects) = NumEntities + 4
    /\ files = prev

----------------------------------------------------------------------------
(* References and links *)

Range(q) == {q[i] : i \in 1..Len(q)}

Keys == DOMAIN sim.gameobjects

\* the keys of the identifiers in the fields of component c, {} if c is absent
RefsIn(go, c) ==
    IF c \notin DOMAIN go.components THEN {}
    ELSE LET v == go.components[c]
         IN CASE c = "Settlement" -> {str(x) : x \in Range(v.districts)}
              [] c = "District" ->
                     {str(x) : x \in {v.settlement} \cup Range(v.residences)
                                         \cup Range(v.businesses)}
              [] c = "ResidentialBuilding" ->
                     {str(x) : x \in {v.district} \cup Range(v.units)}
              [] c = "Residence" -> {str(x) : x \in Range(v.residents)}
              [] c = "Business" -> {str(v.district)}
              [] c = "Resident" -> {str(v.residence)}
              [] c = "Occupation" -> {str(v.business)}
              [] c = "Traits" -> {str(x) : x \in Range(v.traits)}
              [] c = "Skills" -> {v[i][1] : i \in 1..Len(v)}
              [] c = "FrequentedLocations" -> {str(x) : x \in Range(v.locations)}
              [] c = "Relationships" ->
                     {v.outgoing[i][1] : i \in 1..Len(v.outgoing)}
                     \cup {str(v.outgoing[i][2]) : i \in 1..Len(v.outgoing)}
              [] OTHER -> {}

\* every identifier an entity refers to, in any component or as its parent
AllRefs(go) ==
    UNION {RefsIn(go, c) : c \in DOMAIN go.components}
    \cup (IF "parent" \in DOMAIN go THEN {str(go.parent)} ELSE {})

\* every referenced identifier is a key of the entity map
AllRefsAreKeys == \A key \in Keys : AllRefs(sim.gameobjects[key]) \subseteq Keys

\* the residents of the units of a residential building
ResidentsOfBuilding(key) ==
    UNION {RefsIn(sim.gameobjects[u], "Residence") :
              u \in {str(x) : x \in Range(
                        sim.gameobjects[key].components["ResidentialBuilding"].units)}}

\* the identifiers the page of an entity links to, by the entity's first kind
\* (defined when the entity's page can be shaped)
LinkedKeys(go) ==
    LET kind == FirstKind(go)
        v == go.components[kind]
    IN CASE kind = "Settlement" -> RefsIn(go, "Settlement")
         [] kind = "District" ->
                RefsIn(go, "District")
                \cup UNION {ResidentsOfBuilding(str(r)) : r \in Range(v.residences)}
         [] kind = "Character" ->
                (IF "Resident" \in DOMAIN go.components
                 THEN {str(sim.gameobjects[str(go.components["Resident"].residence)].parent)}
                 ELSE {})
                \cup RefsIn(go, "Occupation")
                \cup RefsIn(go, "FrequentedLocations")
                \cup {go.components["Relationships"].outgoing[i][1] :
                         i \in 1..Len(go.components["Relationships"].outgoing)}
         [] kind = "Business" -> {str(v.district)}
         [] kind = "ResidentialBuilding" ->
                {str(v.district)} \cup ResidentsOfBuilding(str(go.id))

\* the links a rendered text carries to entity pages
LinksIn(text) ==
    LET ctx == text.context
        seconds(pairs) == {pairs[i][2] : i \in 1..Len(pairs)}
    IN CASE text.template = "settlement.jinja" -> seconds(ctx.districts)
         [] text.template = "district.jinja" ->
                {ctx.settlement[2]} \cup seconds(ctx.residences)
                \cup seconds(ctx.businesses) \cup seconds(ctx.residents)
         [] text.template = "business.jinja" -> {ctx.district_link}
         [] text.template = "character.jinja" ->
                ({ctx.residence_link, ctx.occupation_link} \ {"#"})
                \cup {ctx.frequented_locations[i].link :
                         i \in 1..Len(ctx.frequented_locations)}
                \cup {ctx.relationships[i].target_link :
                         i \in 1..Len(ctx.relationships)}
         [] text.template = "residence.jinja" ->
                {ctx.district[2]}
                \cup UNION {seconds(ctx.units[i].residents) : i \in 1..Len(ctx.units)}
         [] text.template = "index.jinja" ->
                seconds(ctx.settlements) \cup seconds(ctx.districts)
                \cup seconds(ctx.businesses) \cup seconds(ctx.characters)
         [] OTHER -> {}

\* the keys of the entities whose page this run wrote
Generated == {key \in Keys : Wrote(KeyPath(key))}

\* every link of every page and of the index written by this run names a page
\* written by this run
AllLinksResolve ==
    /\ \A key \in Generated :
           LinksIn(files[KeyPath(key)][1])
               \subseteq {"../gameobjects/" \o k \o ".html" : k \in Generated}
    /\ Wrote("output/index.html") =>
           LinksIn(files["output/index.html"][1])
               \subseteq {"/gameobjects/" \o k \o ".html" : k \in Generated}

(* C4 as stated: after a completed run on a snapshot in which every        *)
(* referenced identifier is a key of the entity map, every link of every    *)
(* entity page and of index.html carries an identifier whose page was       *)
(* generated in that run.                                                   *)
C4_LinkIntegrity ==
    (pc = "done" /\ AllRefsAreKeys) => AllLinksResolve

\* every identifier a page links to belongs to an entity with a dispatch kind
LinkedAreDispatched ==
    \A key \in Keys :
        KindsOf(sim.gameobjects[key]) # {} =>
            \A k \in LinkedKeys(sim.gameobjects[key]) :
                k \in Keys /\ KindsOf(sim.gameobjects[k]) # {}

(* C4 as amended: after a completed run on a snapshot in which every        *)
(* referenced identifier is a key of the entity map and every identifier a  *)
(* link is emitted for is the key of an entity whose components contain a   *)
(* dispatch kind, every link of every entity page and of index.html carries *)
(* an identifier whose page was generated in that run.                      *)
C4_LinkIntegrityOfDispatchedTargets ==
    (pc = "done" /\ AllRefsAreKeys /\ LinkedAreDispatched) => AllLinksResolve

\* a completed run whose pages link to pages of other entities
C4_Witness ==
    /\ pc = "done"
    /\ AllRefsAreKeys
    /\ LinkedAreDispatched
    /\ \A key \in Keys :
           /\ key \in Generated
           /\ \E k \in Keys \ {key} :
                  ("../gameobjects/" \o k \o ".html") \in LinksIn(files[KeyPath(key)][1])

----------------------------------------------------------------------------
(* The residents of a district *)

\* the units of the i-th residence of district go
UnitsAt(go, i) ==
    sim.gameobjects[str(go.components["District"].residences[i])]
        .components["ResidentialBuilding"].units

\* the residents of the j-th unit of the i-th residence
ResidentsAt(go, i, j) ==
    sim.gameobjects[str(UnitsAt(go, i)[j])].components["Residence"].residents

\* one triple for each resident of each unit of each residence
Slots(go) ==
    {<<i, j, k>> \in (1..Len(go.components["District"].residences))
                      \X (1..MaxRefs) \X (1..MaxRefs) :
        /\ j <= Len(UnitsAt(go, i))
        /\ k <= Len(ResidentsAt(go, i, j))}

Before(a, b) ==
    \/ a[1] < b[1]
    \/ a[1] = b[1] /\ a[2] < b[2]
    \/ a[1] = b[1] /\ a[2] = b[2] /\ a[3] < b[3]

\* the place of a slot in source order
Rank(go, t) == Cardinality({u \in Slots(go) : Before(u, t)}) + 1

(* C6: the resident list of every district page is, in source order and     *)
(* with nothing re-sorted or dropped, the residents of every unit of every  *)
(* residence: residences in the order of District.residences, units in the  *)
(* order of ResidentialBuilding.units, residents in the order of            *)
(* Residence.residents, each as (name, ../gameobjects/<id>.html).           *)
C6_DistrictResidentsInSourceOrder ==
    \A key \in Generated :
        LET go == sim.gameobjects[key]
            listed == PageContext(key).residents
        IN FirstKind(go) = "District" =>
               /\ Len(listed) = Cardinality(Slots(go))
               /\ \A t \in Slots(go) :
                      LET id == ResidentsAt(go, t[1], t[2])[t[3]]
                      IN listed[Rank(go, t)]
                             = <<sim.gameobjects[str(id)].name,
                                 "../gameobjects/" \o str(id) \o ".html">>

\* a district page written for two residences of two units each, whose
\* residents are listed in different orders and more than once
C6_Witness ==
    \E key \in Generated :
        LET go == sim.gameobjects[key]
            listed == PageContext(key).residents
        IN /\ FirstKind(go) = "District"
           /\ Len(go.components["District"].residences) = 2
           /\ Len(listed) = 8
           /\ listed[1] # listed[2]
           /\ listed[1] # listed[3]
           /\ listed[1] = listed[4]

----------------------------------------------------------------------------
(* The defaults of a character page *)

\* a character that refers to no other entity at all
RefersToNothing(go) == AllRefs(go) = {}

(* C7: the page of every Character without a Resident component has         *)
(* residence name "N/A" and link "#", and that of every Character without   *)
(* an Occupation component has occupation name "N/A" and link "#", whether  *)
(* or not the other field is present; the missing field costs no lookup:    *)
(* a character that refers to no entity never ends the run.                 *)
C7_CharacterDefaults ==
    /\ \A key \in Generated :
           LET go == sim.gameobjects[key]
               ctx == PageContext(key)
           IN FirstKind(go) = "Character" =>
                  /\ "Resident" \notin DOMAIN go.components =>
                         ctx.residence_name = "N/A" /\ ctx.residence_link = "#"
                  /\ "Occupation" \notin DOMAIN go.components =>
                         ctx.occupation_name = "N/A" /\ ctx.occupation_link = "#"
                  /\ "Resident" \in DOMAIN go.components =>
                         ctx.residence_link # "#"
                  /\ "Occupation" \in DOMAIN go.components =>
                         ctx.occupation_link # "#"
    /\ \A p \in Positions :
           (/\ KindsOf(At(p)) # {}
            /\ FirstKind(At(p)) = "Character"
            /\ RefersToNothing(At(p)))
           => ~(pc = "aborted" /\ idx = p)

\* a run wrote the page of a character that has a residence and no
\* occupation: the residence is resolved and the occupation is the default
C7_Witness ==
    \E key \in Generated :
        /\ FirstKind(sim.gameobjects[key]) = "Character"
        /\ "Resident" \in DOMAIN sim.gameobjects[key].components
        /\ "Occupation" \notin DOMAIN sim.gameobjects[key].components
        /\ PageContext(key).occupation_name = "N/A"
        /\ PageContext(key).occupation_link = "#"
        /\ PageContext(key).residence_name # "N/A"

----------------------------------------------------------------------------
(* Missing references *)

\* the units of a building and, for the units that resolve, their residents
UnitRefs(go) ==
    LET units == {str(x) : x \in Range(go.components["ResidentialBuilding"].units)}
    IN units \cup UNION {RefsIn(sim.gameobjects[u], "Residence") : u \in units \cap Keys}

\* the identifiers shaping the page of an entity may look up: those in the
\* entity's own components and, through the entities that resolve, the units
\* and residents of a district's residences, the residents of a building's
\* units, the building of a character's residence and the traits of a
\* character's relationships
LookedUp(go) ==
    LET kind == FirstKind(go)
        resolved(refs) == {sim.gameobjects[k] : k \in refs \cap Keys}
    IN CASE kind = "Settlement" -> RefsIn(go, "Settlement")
         [] kind = "District" ->
                RefsIn(go, "District")
                \cup UNION {UnitRefs(r) :
                               r \in {x \in resolved({str(y) : y \in Range(
                                            go.components["District"].residences)}) :
                                         "ResidentialBuilding" \in DOMAIN x.components}}
         [] kind = "Character" ->
                RefsIn(go, "Resident") \cup RefsIn(go, "Occupation")
                \cup RefsIn(go, "Traits") \cup RefsIn(go, "Skills")
                \cup RefsIn(go, "FrequentedLocations")
                \cup RefsIn(go, "Relationships")
                \cup {str(u.parent) :
                         u \in {x \in resolved(RefsIn(go, "Resident")) :
                                   "parent" \in DOMAIN x}}
                \cup (IF "Relationships" \in DOMAIN go.components
                      THEN UNION {RefsIn(sim.gameobjects[k], "Traits") :
                                     k \in {str(go.components["Relationships"].outgoing[i][2]) :
                                               i \in 1..Len(go.components["Relationships"].outgoing)}
                                           \cap Keys}
                      ELSE {})
         [] kind = "Business" -> RefsIn(go, "Business") \cup RefsIn(go, "Traits")
         [] kind = "ResidentialBuilding" -> UnitRefs(go) \cup RefsIn(go, "ResidentialBuilding")
                                            \cup RefsIn(go, "Traits")
         [] OTHER -> {}

\* shaping the page of the entity at position p looks up an absent identifier
MissesReference(p) ==
    KindsOf(At(p)) # {} /\ ~(LookedUp(At(p)) \subseteq Keys)

(* C8: when shaping the page of an entity looks up an identifier that is    *)
(* absent from the entity map, the run ends there with the lookup error:    *)
(* the loop never passes that entity, no file is written for it, no         *)
(* generator is called for any later entity, and index.html is not written  *)
(* by that run.                                                             *)
C8_MissingReferenceAborts ==
    \A p \in Positions :
        MissesReference(p) =>
            /\ idx <= p
            /\ pc # "done"
            /\ ~Wrote(KeyPath(sim.order[p]))
            /\ ~Wrote("output/index.html")
            /\ \A q \in Positions : q > p => CallsFor(sim.order[q]) = {}
            /\ Cardinality(CallsFor(sim.order[p])) <= 1
            /\ (CallsFor(sim.order[p]) # {}) =>
                   pc = "aborted" /\ idx = p /\ error = "KeyError"

\* the first entity's page needs an absent identifier, the run is over, and
\* the second entity, which has a dispatch kind, was never handed to its
\* generator
C8_Witness ==
    /\ pc = "aborted"
    /\ Len(sim.order) = NumEntities
    /\ MissesReference(1)
    /\ KindsOf(At(2)) # {}
    /\ ~MissesReference(2)
    /\ LookedUp(At(2)) # {}
    /\ calls = << <<sim.order[1], GeneratorOf[FirstKind(At(1))]>> >>
    /\ files = prev

====
